---- MODULE Spec2Model ----
(***************************************************************************)
(* Model of generate_wavs/main.py: the command entry point main, the       *)
(* matrix runner execute_scenario and the invoker run_rust_program,        *)
(* together with the scenario store constants/sound_scenario.py.           *)
(*                                                                         *)
(* A scalar value of a parameter table is the record [t, n, s]:            *)
(*   t = "int"   : the integer n                                           *)
(*   t = "float" : the float n / 100 (every float of the tables has at     *)
(*                 most two decimals)                                      *)
(*   t = "str"   : the string s                                            *)
(* A parameter set (a dict, insertion ordered) is a sequence of            *)
(* <<name, values>> pairs with pairwise distinct names.                    *)
(***************************************************************************)
EXTENDS Integers, Sequences, FiniteSets, TLC

VARIABLES
  entry,            \* "main" or "execute_scenario": what the caller runs
  scenario,         \* main: the scenario name given on the command line
  executable_path,  \* the executable path argument
  settings,         \* the parameter set handed to execute_scenario
  pc,               \* position in the code
  keys, values,     \* execute_scenario's locals (line 85)
  it,               \* the product iterator of line 86: [idx, done]
  cursor,           \* number of combinations the iterator has yielded
  combination_dict, \* execute_scenario's local (line 87)
  ncalls,           \* number of subprocess.run calls of this sweep
  lastArgs,         \* argument list of the latest subprocess.run call
  calls,            \* argument lists of the first MaxLog calls of the sweep
  outcomes,         \* how the children of those calls behaved
  children,         \* number of child processes started and not yet reaped
  lastOutcome,      \* how the latest invocation ended, NoOutcome if none
  failedAt,         \* index of the first failed invocation, 0 when none
  exc, excInfo,     \* the exception that left execute_scenario / main
  exitStatus,       \* main: exit status of the interpreter, -1 while running
  run,              \* 1 or 2: which call of execute_scenario this is
  firstRun          \* what the first call of execute_scenario did

vars == <<entry, scenario, executable_path, settings, pc, keys, values, it,
          cursor, combination_dict, ncalls, lastArgs, calls, outcomes,
          children, lastOutcome, failedAt, exc, excInfo, exitStatus, run,
          firstRun>>

(***************************************************************************)
(* Bounds                                                                  *)
(***************************************************************************)
\* largest number of parameters of a parameter set handed to execute_scenario
MaxParams == 2
\* number of leading invocations of a sweep kept in the invocation log
MaxLog == 9

(***************************************************************************)
(* Values and parameter tables                                             *)
(***************************************************************************)
IntV(i) == [t |-> "int", n |-> i, s |-> ""]
FloatV(h) == [t |-> "float", n |-> h, s |-> ""]
StrV(x) == [t |-> "str", n |-> 0, s |-> x]

AUDIO_AMPLITUDE ==
  [low |-> <<FloatV(50)>>, standard |-> <<FloatV(50)>>, high |-> <<FloatV(100)>>]

AUDIO_BIT_DEPTH ==
  [telephone |-> <<IntV(8)>>,
   broadcasting |-> <<IntV(10), IntV(11)>>,
   video_tape |-> <<IntV(12), IntV(16)>>,
   cd_audio |-> <<IntV(16)>>,
   dvd_audio |-> <<IntV(16), IntV(20), IntV(24)>>,
   daw |-> <<IntV(4), IntV(8), IntV(16), IntV(24), IntV(32), IntV(48), IntV(64)>>]

AUDIO_DC_OFFSET ==
  [none |-> <<FloatV(0)>>, low |-> <<FloatV(50)>>, medium |-> <<FloatV(50)>>,
   high |-> <<FloatV(100)>>]

AUDIO_DURATION ==
  [short |-> <<FloatV(500)>>, five_seven |-> <<FloatV(500), FloatV(700)>>,
   medium |-> <<FloatV(700)>>, long |-> <<FloatV(1000)>>]

TUNING_STANDARD_A4 ==
  <<FloatV(8241), FloatV(11000), FloatV(14683), FloatV(19600), FloatV(24694),
    FloatV(32963)>>

\* round(freq * 2^(n/12), 2) for freq in TUNING_STANDARD_A4, n in 0..11,
\* in hundredths
SemitoneHundredths ==
  <<8241, 8731, 9250, 9800, 10383, 11000, 11655, 12348, 13082, 13860, 14684, 15557,
    11000, 11654, 12347, 13081, 13859, 14683, 15556, 16481, 17461, 18500, 19600, 20765,
    14683, 15556, 16481, 17461, 18499, 19599, 20765, 22000, 23308, 24694, 26162, 27718,
    19600, 20765, 22000, 23308, 24694, 26163, 27719, 29367, 31113, 32963, 34923, 37000,
    24694, 26162, 27718, 29366, 31112, 32963, 34923, 36999, 39199, 41530, 44000, 46616,
    32963, 34923, 37000, 39200, 41531, 44000, 46617, 49389, 52326, 55437, 58733, 62226>>

TUNING_SEMITONES ==
  [i \in 1..Len(SemitoneHundredths) |-> FloatV(SemitoneHundredths[i])]

AUDIO_TUNING ==
  [tuning_standard |-> TUNING_STANDARD_A4, tuning_semitones |-> TUNING_SEMITONES]

AUDIO_NOISE_TYPE ==
  [none |-> <<StrV("")>>, white |-> <<StrV("white")>>, pink |-> <<StrV("pink")>>]

AUDIO_NOISE_VOLUME ==
  [none |-> <<FloatV(0)>>, low |-> <<FloatV(10)>>, mid |-> <<FloatV(30)>>,
   high |-> <<FloatV(50)>>, full |-> <<FloatV(100)>>]

AUDIO_PHASE_SHIFT ==
  [none |-> <<FloatV(0)>>, quarter |-> <<FloatV(4500)>>, half |-> <<FloatV(9000)>>]

\* the key "blu-ray" is the field blu_ray
AUDIO_SAMPLE_RATE ==
  [tv_audio |-> <<IntV(8000), IntV(16000), IntV(32000)>>,
   cd_audio |-> <<IntV(22050), IntV(44100)>>,
   dvd_audio |-> <<IntV(48000), IntV(96000)>>,
   blu_ray |-> <<IntV(192000)>>]

AUDIO_WAVE_FORM ==
  [sine |-> <<StrV("sine")>>, square |-> <<StrV("square")>>,
   triangle |-> <<StrV("triangle")>>]

SCENARIOS ==
  [Smoke |->
     << <<"waveform_type", AUDIO_WAVE_FORM.sine>>,
        <<"sample_rate", AUDIO_SAMPLE_RATE.cd_audio>>,
        <<"bit_depth", AUDIO_BIT_DEPTH.dvd_audio>>,
        <<"duration", AUDIO_DURATION.short>>,
        <<"frequency", AUDIO_TUNING.tuning_standard>>,
        <<"amplitude", AUDIO_AMPLITUDE.standard>>,
        <<"dc_offset", AUDIO_DC_OFFSET.none>>,
        <<"phase_shift", AUDIO_PHASE_SHIFT.none>> >>,
   Normal |->
     << <<"waveform_type", AUDIO_WAVE_FORM.sine>>,
        <<"sample_rate",
          AUDIO_SAMPLE_RATE.cd_audio \o AUDIO_SAMPLE_RATE.dvd_audio>>,
        <<"bit_depth", AUDIO_BIT_DEPTH.dvd_audio>>,
        <<"duration", AUDIO_DURATION.five_seven>>,
        <<"frequency", AUDIO_TUNING.tuning_semitones>>,
        <<"amplitude", AUDIO_AMPLITUDE.standard>>,
        <<"dc_offset", AUDIO_DC_OFFSET.none>>,
        <<"phase_shift", AUDIO_PHASE_SHIFT.none>>,
        <<"noise_type", AUDIO_NOISE_TYPE.none \o AUDIO_NOISE_TYPE.pink>>,
        <<"noise_volume",
          AUDIO_NOISE_VOLUME.none \o AUDIO_NOISE_VOLUME.low>> >>,
   Stress |->
     << <<"waveform_type", AUDIO_WAVE_FORM.sine>>,
        <<"sample_rate",
          AUDIO_SAMPLE_RATE.cd_audio \o AUDIO_SAMPLE_RATE.dvd_audio
            \o AUDIO_SAMPLE_RATE.blu_ray>>,
        <<"bit_depth", AUDIO_BIT_DEPTH.dvd_audio>>,
        <<"duration", AUDIO_DURATION.long>>,
        <<"frequency", <<FloatV(44000), FloatV(88000), FloatV(176000)>> >>,
        <<"amplitude", AUDIO_AMPLITUDE.standard>>,
        <<"dc_offset", AUDIO_DC_OFFSET.none>>,
        <<"phase_shift",
          AUDIO_PHASE_SHIFT.none \o AUDIO_PHASE_SHIFT.quarter>>,
        <<"noise_type", AUDIO_NOISE_TYPE.white \o AUDIO_NOISE_TYPE.pink>>,
        <<"noise_volume",
          AUDIO_NOISE_VOLUME.low \o AUDIO_NOISE_VOLUME.mid>> >>]

(***************************************************************************)
(* run_rust_program: rendering of values and the argument list             *)
(***************************************************************************)
DigitChars == <<"0", "1", "2", "3", "4", "5", "6", "7", "8", "9">>

RECURSIVE Decimal(_)
\* the decimal digits of a natural number
Decimal(n) ==
  IF n < 10 THEN DigitChars[n + 1]
  ELSE Decimal(n \div 10) \o DigitChars[(n % 10) + 1]

\* str(value) of line 58: an int in decimal digits, a float in its shortest
\* round-trip text (always with a fractional part; the floats n / 100 of the
\* tables are all in the range str writes without an exponent), a string
\* verbatim
PyStr(v) ==
  CASE v.t = "int" ->
         IF v.n < 0 THEN "-" \o Decimal(0 - v.n) ELSE Decimal(v.n)
    [] v.t = "float" ->
         Decimal(v.n \div 100) \o "." \o
           (IF v.n % 10 = 0 THEN DigitChars[((v.n % 100) \div 10) + 1]
            ELSE DigitChars[((v.n % 100) \div 10) + 1]
                   \o DigitChars[(v.n % 10) + 1])
    [] v.t = "str" -> v.s

RECURSIVE AppendOptionsSkipEmpty(_, _)
\* variant of the loop that leaves out the value token of an empty text
AppendOptionsSkipEmpty(args, kwargs) ==
  IF kwargs = <<>> THEN args
  ELSE AppendOptionsSkipEmpty(
         IF PyStr(Head(kwargs)[2]) = ""
         THEN args \o <<"--" \o Head(kwargs)[1]>>
         ELSE args \o <<"--" \o Head(kwargs)[1], PyStr(Head(kwargs)[2])>>,
         Tail(kwargs))

RECURSIVE AppendOptions(_, _)
\* the loop of lines 56-58 over kwargs.items()
AppendOptions(args, kwargs) ==
  IF kwargs = <<>> THEN args
  ELSE AppendOptions(
         args \o <<"--" \o Head(kwargs)[1], PyStr(Head(kwargs)[2])>>,
         Tail(kwargs))

\* variant of BuildArgs: an empty value gets no token
BuildArgsSkipEmpty(path, kwargs) == AppendOptionsSkipEmpty(<<path>>, kwargs)

\* lines 54-58: args of subprocess.run
BuildArgs(path, kwargs) == AppendOptions(<<path>>, kwargs)

\* the call run_rust_program(executable_path, **combination_dict) of line 88
\* binds executable_path positionally; a keyword of the same name is a
\* TypeError (multiple values for argument 'executable_path')
BindsTwice(kwargs) ==
  \E i \in 1..Len(kwargs) : kwargs[i][1] = "executable_path"

\* variant of CheckReturn: check=False, the return code is ignored
CheckReturnIgnored(returncode) == "none"

\* check=True of line 59: the exception a return code raises, "none" if none
CheckReturn(returncode) ==
  IF returncode # 0 THEN "CalledProcessError" ELSE "none"

(***************************************************************************)
(* execute_scenario: unpacking and the cartesian product                   *)
(***************************************************************************)
\* variant of Unpack: an empty dict yields no keys and no values
UnpackLenient(d) ==
  [ok |-> TRUE,
   keys |-> [i \in 1..Len(d) |-> d[i][1]],
   values |-> [i \in 1..Len(d) |-> d[i][2]]]

\* keys, values = zip(*settings.items()) of line 85: zip of no pairs yields
\* nothing and the unpacking into two names raises ValueError
Unpack(d) ==
  IF Len(d) = 0
  THEN [ok |-> FALSE, keys |-> <<>>, values |-> <<>>]
  ELSE [ok |-> TRUE,
        keys |-> [i \in 1..Len(d) |-> d[i][1]],
        values |-> [i \in 1..Len(d) |-> d[i][2]]]

\* variant of ProductNew: the iterator of the first call is used again
ProductNewStale(pools) ==
  IF run = 1
  THEN [idx |-> [i \in 1..Len(pools) |-> 1],
        done |-> \E i \in 1..Len(pools) : Len(pools[i]) = 0]
  ELSE it

\* product(*values) of line 86: the iterator before its first item; idx is
\* the position, within each pool, of the item to yield next
ProductNew(pools) ==
  [idx |-> [i \in 1..Len(pools) |-> 1],
   done |-> \E i \in 1..Len(pools) : Len(pools[i]) = 0]

\* positions that can still move forward
Movable(idx, pools) == {i \in 1..Len(pools) : idx[i] < Len(pools[i])}

Max(S) == CHOOSE x \in S : \A y \in S : y <= x
Min(S) == CHOOSE x \in S : \A y \in S : x <= y

\* variant of ProductAdvance: the leftmost position moves fastest
ProductAdvanceLeftFastest(idx, pools) ==
  IF Movable(idx, pools) = {}
  THEN [idx |-> idx, done |-> TRUE]
  ELSE LET p == Min(Movable(idx, pools))
       IN [idx |-> [i \in 1..Len(pools) |->
                      IF i > p THEN idx[i] ELSE IF i = p THEN idx[i] + 1 ELSE 1],
           done |-> FALSE]

\* product's step: the rightmost position that can move moves on and the
\* positions to its right start over; the iterator is done when none can
ProductAdvance(idx, pools) ==
  IF Movable(idx, pools) = {}
  THEN [idx |-> idx, done |-> TRUE]
  ELSE LET p == Max(Movable(idx, pools))
       IN [idx |-> [i \in 1..Len(pools) |->
                      IF i < p THEN idx[i] ELSE IF i = p THEN idx[i] + 1 ELSE 1],
           done |-> FALSE]

\* the combination at a position
ProductItem(idx, pools) == [i \in 1..Len(pools) |-> pools[i][idx[i]]]

\* dict(zip(keys, combination)) of line 87, as the sequence of its items
ZipDict(ks, combination) ==
  [i \in 1..Min({Len(ks), Len(combination)}) |-> <<ks[i], combination[i]>>]

(***************************************************************************)
(* main: the command line                                                  *)
(***************************************************************************)
\* choices=SCENARIOS.keys() of line 116
ScenarioChoices == DOMAIN SCENARIOS

\* variant of ParseArgs: the scenario argument has no choices
ParseArgsNoChoices(name) == "ok"

\* parser.parse_args() of line 121: a scenario outside the choices makes
\* the parser print a usage error and raise SystemExit(2)
ParseArgs(name) == IF name \in ScenarioChoices THEN "ok" ELSE "SystemExit"

(***************************************************************************)
(* Inputs                                                                  *)
(***************************************************************************)
\* scenario names given on the command line; "Bogus" is not in the store
ScenarioArgs == {"Smoke", "Normal", "Stress", "Bogus"}

ExecPaths == {"./generator", "/no/such/generator"}

ParamNames == {"frequency", "noise_type", "executable_path"}

ValueSeqs ==
  {<<>>,
   <<IntV(16)>>,
   <<StrV(""), StrV("pink")>>,
   <<FloatV(8241), FloatV(44000), FloatV(10)>>}

\* the parameter sets handed to execute_scenario directly: dicts of at most
\* MaxParams parameters
ParameterSets ==
  {d \in UNION {[1..n -> ParamNames \X ValueSeqs] : n \in 0..MaxParams} :
     \A i, j \in 1..Len(d) : i # j => d[i][1] # d[j][1]}

\* return codes of a child that ran
ReturnCodes == {0, 1, 101}

\* outcome of an invocation: a return code, or NoStart when the process
\* could not be started
NoStart == -1
\* no invocation has ended yet
NoOutcome == -2

\* how the child of invocation i may behave: anything in the first call of
\* execute_scenario; in the second call as it did in the first
ChildBehaviours(i) ==
  IF run = 2 /\ i <= Len(firstRun.outcomes)
  THEN {firstRun.outcomes[i]}
  ELSE ReturnCodes \cup {NoStart}

NoInfo == [cmd |-> <<>>, returncode |-> 0, filename |-> ""]

\* variant of CalledProcessErrorInfo: only the executable is recorded
CalledProcessErrorInfoNoArgs(returncode, args) ==
  [cmd |-> <<args[1]>>, returncode |-> returncode, filename |-> ""]

\* the CalledProcessError check=True raises: the return code and the args
CalledProcessErrorInfo(returncode, args) ==
  [cmd |-> args, returncode |-> returncode, filename |-> ""]

\* the OSError a failed start raises: it names the file that could not be
\* executed, args[0], and holds no argument list
OSErrorInfo(args) == [cmd |-> <<>>, returncode |-> 0, filename |-> args[1]]

\* variant of ExitCodeOf: the exception is swallowed and main exits 0
ExitCodeSwallowed(kind) == IF kind = "SystemExit" THEN 2 ELSE 0

\* exit status of the interpreter when main is left by an exception that
\* nothing catches: SystemExit's code (2 for a usage error), otherwise 1
ExitCodeOf(kind) == IF kind = "SystemExit" THEN 2 ELSE 1

Log(log, x) == IF Len(log) < MaxLog THEN Append(log, x) ELSE log

(***************************************************************************)
(* State machine                                                           *)
(***************************************************************************)
Init ==
  /\ entry \in {"main", "execute_scenario"}
  /\ executable_path \in ExecPaths
  /\ \/ entry = "main" /\ scenario \in ScenarioArgs /\ settings = <<>>
        /\ pc = "main"
     \/ entry = "execute_scenario" /\ scenario = ""
        /\ settings \in ParameterSets /\ pc = "execute_scenario"
  /\ keys = <<>> /\ values = <<>>
  /\ it = [idx |-> <<>>, done |-> TRUE]
  /\ cursor = 0
  /\ combination_dict = <<>>
  /\ ncalls = 0 /\ lastArgs = <<>> /\ calls = <<>> /\ outcomes = <<>>
  /\ children = 0
  /\ lastOutcome = NoOutcome
  /\ failedAt = 0
  /\ exc = "none" /\ excInfo = NoInfo
  /\ exitStatus = -1
  /\ run = 1
  /\ firstRun = [ended |-> FALSE, calls |-> <<>>, outcomes |-> <<>>,
                 ncalls |-> 0, exc |-> "none", excInfo |-> NoInfo]

\* an exception leaves execute_scenario; under main nothing catches it and
\* the interpreter exits with status 1 (with SystemExit's code, 2, for a
\* usage error)
Raise(kind, info) ==
  /\ pc' = "raised"
  /\ exc' = kind
  /\ excInfo' = info
  /\ exitStatus' = IF entry = "main" THEN ExitCodeOf(kind) ELSE exitStatus

\* execute_scenario returns; main then returns and the interpreter exits 0
Return ==
  /\ pc' = "done"
  /\ exitStatus' = IF entry = "main" THEN 0 ELSE exitStatus
  /\ UNCHANGED <<exc, excInfo>>

\* main, lines 112-128 up to the call of execute_scenario
Main ==
  /\ pc = "main"
  /\ IF ParseArgs(scenario) # "ok"
     THEN Raise(ParseArgs(scenario), NoInfo) /\ UNCHANGED settings
     ELSE IF scenario \notin DOMAIN SCENARIOS
     THEN Raise("KeyError", NoInfo) /\ UNCHANGED settings
     ELSE /\ settings' = SCENARIOS[scenario]
          /\ pc' = "execute_scenario"
          /\ UNCHANGED <<exc, excInfo, exitStatus>>
  /\ UNCHANGED <<entry, scenario, executable_path, keys, values, it, cursor,
                 combination_dict, ncalls, lastArgs, calls, outcomes,
                 children, lastOutcome, failedAt, run, firstRun>>

\* execute_scenario, line 85 and the construction of the product of line 86
ExecuteScenario ==
  /\ pc = "execute_scenario"
  /\ LET u == Unpack(settings)
     IN IF ~u.ok
        THEN Raise("ValueError", NoInfo) /\ UNCHANGED <<keys, values, it>>
        ELSE /\ keys' = u.keys
             /\ values' = u.values
             /\ it' = ProductNew(u.values)
             /\ pc' = "for"
             /\ UNCHANGED <<exc, excInfo, exitStatus>>
  /\ UNCHANGED <<entry, scenario, executable_path, settings, cursor,
                 combination_dict, ncalls, lastArgs, calls, outcomes,
                 children, lastOutcome, failedAt, run, firstRun>>

\* execute_scenario, lines 86-87: the for statement takes the next
\* combination, or ends the loop and the function returns
ForLoop ==
  /\ pc = "for"
  /\ IF it.done
     THEN Return /\ UNCHANGED <<it, cursor, combination_dict>>
     ELSE /\ combination_dict' = ZipDict(keys, ProductItem(it.idx, values))
          /\ it' = ProductAdvance(it.idx, values)
          /\ cursor' = cursor + 1
          /\ pc' = "call"
          /\ UNCHANGED <<exc, excInfo, exitStatus>>
  /\ UNCHANGED <<entry, scenario, executable_path, settings, keys, values,
                 ncalls, lastArgs, calls, outcomes, children, lastOutcome,
                 failedAt, run, firstRun>>

\* variant of AfterStart: the child is started and not waited for
AfterStartNoWait == "for"

\* subprocess.run of line 59 blocks until the child it started has
\* terminated: where control is once the child runs
AfterStart == "wait"

\* line 88 and run_rust_program, lines 54-59 up to the start of the child
RunRustProgram ==
  /\ pc = "call"
  /\ IF BindsTwice(combination_dict)
     THEN /\ Raise("TypeError", NoInfo)
          /\ UNCHANGED <<ncalls, lastArgs, calls, outcomes, children,
                         lastOutcome, failedAt>>
     ELSE LET args == BuildArgs(executable_path, combination_dict)
          IN /\ ncalls' = ncalls + 1
             /\ lastArgs' = args
             /\ calls' = Log(calls, args)
             /\ \/ /\ ChildBehaviours(ncalls + 1) \cap ReturnCodes # {}
                   /\ children' = children + 1
                   /\ pc' = AfterStart
                   /\ UNCHANGED <<outcomes, lastOutcome, failedAt, exc,
                                  excInfo, exitStatus>>
                \/ /\ NoStart \in ChildBehaviours(ncalls + 1)
                   /\ outcomes' = Log(outcomes, NoStart)
                   /\ lastOutcome' = NoStart
                   /\ failedAt' = IF failedAt = 0 THEN ncalls + 1
                                  ELSE failedAt
                   /\ Raise("OSError", OSErrorInfo(args))
                   /\ UNCHANGED children
  /\ UNCHANGED <<entry, scenario, executable_path, settings, keys, values,
                 it, cursor, combination_dict, run, firstRun>>

\* subprocess.run of line 59: the child terminates, its return code is
\* checked
ChildExits ==
  /\ pc = "wait"
  /\ \E rc \in ChildBehaviours(ncalls) \cap ReturnCodes :
       /\ children' = children - 1
       /\ outcomes' = Log(outcomes, rc)
       /\ lastOutcome' = rc
       /\ failedAt' = IF rc # 0 /\ failedAt = 0 THEN ncalls ELSE failedAt
       /\ IF CheckReturn(rc) = "none"
          THEN pc' = "for" /\ UNCHANGED <<exc, excInfo, exitStatus>>
          ELSE Raise(CheckReturn(rc), CalledProcessErrorInfo(rc, lastArgs))
  /\ UNCHANGED <<entry, scenario, executable_path, settings, keys, values,
                 it, cursor, combination_dict, ncalls, lastArgs, calls, run,
                 firstRun>>

\* the caller of execute_scenario calls it a second time with the same
\* arguments; the frame of the first call is gone, its locals are unbound
\* until the second call assigns them
CallAgain ==
  /\ entry = "execute_scenario"
  /\ run = 1
  /\ pc \in {"done", "raised"}
  /\ firstRun' = [ended |-> TRUE, calls |-> calls, outcomes |-> outcomes,
                  ncalls |-> ncalls, exc |-> exc, excInfo |-> excInfo]
  /\ run' = 2
  /\ pc' = "execute_scenario"
  /\ cursor' = 0
  /\ ncalls' = 0 /\ lastArgs' = <<>> /\ calls' = <<>> /\ outcomes' = <<>>
  /\ lastOutcome' = NoOutcome
  /\ failedAt' = 0
  /\ exc' = "none" /\ excInfo' = NoInfo
  /\ UNCHANGED <<entry, scenario, executable_path, settings, keys, values,
                 it, combination_dict, children, exitStatus>>

Next ==
  \/ Main
  \/ ExecuteScenario
  \/ ForLoop
  \/ RunRustProgram
  \/ ChildExits
  \/ CallAgain

Spec == Init /\ [][Next]_vars

(***************************************************************************)
(* Properties                                                              *)
(***************************************************************************)
\* the run of execute_scenario (and of main) has ended
Ended == pc \in {"done", "raised"}

\* length of the value sequence of parameter j of the parameter set
SeqLen(j) == Len(settings[j][2])

RECURSIVE ProductFrom(_)
\* L(j) * L(j+1) * ... * L(n)
ProductFrom(j) ==
  IF j > Len(settings) THEN 1 ELSE SeqLen(j) * ProductFrom(j + 1)

AllNonEmpty == \A j \in 1..Len(settings) : SeqLen(j) >= 1

\* position (from 0) in the sequence of parameter j of the value that
\* invocation i (from 0) carries in multi-radix counting order
RadixIndex(i, j) == (i \div ProductFrom(j + 1)) % SeqLen(j)

\* the text of some values, written out
ExpectedText ==
  (IntV(16) :> "16") @@ (IntV(22050) :> "22050") @@ (StrV("") :> "")
    @@ (StrV("pink") :> "pink") @@ (StrV("sine") :> "sine")
    @@ (FloatV(8241) :> "82.41") @@ (FloatV(44000) :> "440.0")
    @@ (FloatV(10) :> "0.1") @@ (FloatV(0) :> "0.0")
    @@ (FloatV(500) :> "5.0") @@ (FloatV(62226) :> "622.26")

\* C1: for a parameter set of n >= 1 parameters whose value sequences are
\* all non-empty, a run in which no child failed ends after exactly
\* L1 * ... * Ln invocations.
C1_ExactlyProductInvocations ==
  (Ended /\ Len(settings) >= 1 /\ AllNonEmpty /\ failedAt = 0)
    => (pc = "done" /\ ncalls = ProductFrom(1))

\* C2: the i-th invocation (from 0) carries for parameter j the value at
\* position (i div (L(j+1) * ... * Ln)) mod Lj: the first parameter is the
\* outermost loop, the last one varies fastest.
C2_MultiRadixOrder ==
  /\ ncalls > 0 =>
       /\ Len(lastArgs) = 1 + 2 * Len(settings)
       /\ \A j \in 1..Len(settings) :
            lastArgs[2 * j + 1]
              = PyStr(settings[j][2][RadixIndex(ncalls - 1, j) + 1])
  /\ Ended => \A i \in 1..Len(calls) :
       /\ Len(calls[i]) = 1 + 2 * Len(settings)
       /\ \A j \in 1..Len(settings) :
            calls[i][2 * j + 1]
              = PyStr(settings[j][2][RadixIndex(i - 1, j) + 1])

C2_Witness ==
  /\ entry = "execute_scenario" /\ pc = "done"
  /\ Len(settings) = 2 /\ SeqLen(1) = 3 /\ SeqLen(2) = 2
  /\ ncalls = 6
  /\ calls[2] = <<executable_path, "--frequency", "82.41",
                  "--noise_type", "pink">>
  /\ calls[3] = <<executable_path, "--frequency", "440.0",
                  "--noise_type", "">>

\* the argument list of an invocation that carries the given items: the
\* executable path and then, per parameter in declaration order, the token
\* --name and one token with the text of the value
WellFormedArgs(args, items) ==
  /\ Len(args) = 1 + 2 * Len(items)
  /\ args[1] = executable_path
  /\ \A j \in 1..Len(items) :
       /\ args[2 * j] = "--" \o items[j][1]
       /\ args[2 * j + 1] = PyStr(items[j][2])
       /\ items[j][2] \in DOMAIN ExpectedText
            => args[2 * j + 1] = ExpectedText[items[j][2]]

\* C3: the argument list of every invocation is the executable path and
\* then exactly 2n tokens, --name and the text of the value per parameter in
\* declaration order; an empty string value is a token of its own.
C3_FlagValuePairs ==
  /\ (ncalls > 0 /\ pc # "call") =>
       /\ Len(combination_dict) = Len(settings)
       /\ \A j \in 1..Len(settings) :
            /\ combination_dict[j][1] = settings[j][1]
            /\ \E k \in 1..SeqLen(j) :
                 combination_dict[j][2] = settings[j][2][k]
       /\ WellFormedArgs(lastArgs, combination_dict)
  /\ \A i \in 1..Len(calls) : calls[i][1] = executable_path

C3_Witness ==
  /\ entry = "execute_scenario" /\ pc = "wait"
  /\ lastArgs = <<executable_path, "--noise_type", "", "--frequency", "0.1">>

\* C4: when the k-th invocation is the first to fail the run has ended with
\* exactly k invocations made and k combinations drawn, the error has left
\* execute_scenario and no child is running.
C4_FailFast ==
  failedAt > 0 =>
    /\ pc = "raised"
    /\ exc \in {"CalledProcessError", "OSError"}
    /\ ncalls = failedAt
    /\ cursor = failedAt
    /\ children = 0

C4_Witness ==
  /\ failedAt = 3 /\ pc = "raised" /\ AllNonEmpty /\ ProductFrom(1) >= 5

\* C5: a parameter set of at least one parameter with some empty value
\* sequence makes the run end in an error, with no invocation; it never
\* returns normally.
C5_EmptySequenceIsError ==
  (Len(settings) >= 1 /\ ~AllNonEmpty)
    => (ncalls = 0 /\ pc # "done" /\ (pc = "raised" => exc = "ValueError"))

\* C6: a parameter set of zero parameters makes execute_scenario fail with
\* an error before anything is drawn or invoked.
C6_EmptyMappingIsError ==
  (entry = "execute_scenario" /\ Len(settings) = 0
     /\ pc # "execute_scenario")
    => (pc = "raised" /\ exc = "ValueError" /\ ncalls = 0 /\ cursor = 0
          /\ children = 0)

C6_Witness ==
  entry = "execute_scenario" /\ settings = <<>> /\ pc = "raised" /\ run = 2

C8_SecondCallRepeatsFirst ==
  /\ run = 2 =>
       \A i \in 1..Len(calls) :
         i <= Len(firstRun.calls) /\ calls[i] = firstRun.calls[i]
  /\ (run = 2 /\ Ended /\ firstRun.ncalls <= MaxLog) =>
       /\ ncalls = firstRun.ncalls
       /\ calls = firstRun.calls
       /\ exc = firstRun.exc
       /\ excInfo = firstRun.excInfo

C8_Witness ==
  /\ run = 2 /\ pc = "done" /\ ncalls = 3 /\ Len(firstRun.calls) = 3

\* C9: a scenario name that is not a key of SCENARIOS makes main end at
\* once with the parser's usage error (exit status 2); nothing is invoked.
C9_UnknownScenario ==
  (entry = "main" /\ scenario \notin DOMAIN SCENARIOS /\ pc # "main")
    => (pc = "raised" /\ exc = "SystemExit" /\ exitStatus = 2
          /\ ncalls = 0 /\ cursor = 0 /\ children = 0)

C9_Witness ==
  entry = "main" /\ scenario = "Bogus" /\ pc = "raised" /\ exitStatus # -1

\* C10 as stated: main exits with a failure status if and only if some
\* invocation failed.
C10_FailureIffInvocationFailed ==
  exitStatus # -1 => ((exitStatus # 0) <=> (failedAt > 0))

\* C10 amended: main exits with a failure status if and only if some
\* invocation failed or the parser rejected the command line; a failed
\* invocation gives exit status 1.
C10_FailureIffInvocationOrUsage ==
  exitStatus # -1 =>
    /\ (exitStatus # 0) <=> (failedAt > 0 \/ scenario \notin DOMAIN SCENARIOS)
    /\ failedAt > 0 => exitStatus = 1

C10_Witness ==
  entry = "main" /\ scenario = "Smoke" /\ exitStatus = 1 /\ failedAt = 36

\* C11: at most one child process is outstanding, and whenever the runner
\* is between invocations or about to make the next one, the child of the
\* previous invocation has terminated and its exit status was seen to be 0.
C11_OneChildAtATime ==
  /\ children \in {0, 1}
  /\ children = 1 <=> pc = "wait"
  /\ (pc \in {"for", "call"} /\ ncalls > 0) => lastOutcome = 0
  /\ pc = "wait" => (ncalls > 1 => lastOutcome = 0)

C11_Witness ==
  pc = "wait" /\ children = 1 /\ ncalls = 3 /\ lastOutcome = 0 /\ cursor = 3

\* C12: parameter names are opaque: whatever the names are, also
\* executable_path, every combination drawn is invoked, with the executable
\* path first and the flag --name for each parameter; no name makes the run
\* fail before invoking.
C12_NamesAreOpaque ==
  (cursor > 0 /\ pc # "call") =>
    /\ exc # "TypeError"
    /\ ncalls = cursor
    /\ Len(lastArgs) = 1 + 2 * Len(settings)
    /\ lastArgs[1] = executable_path
    /\ \A j \in 1..Len(settings) : lastArgs[2 * j] = "--" \o settings[j][1]

====
